---- MODULE Spec2Model ----
(***************************************************************************)
(* Calendar arithmetic of date-fns (Codibre fork): addMilliseconds,        *)
(* addSeconds, addMinutes, addHours, addDays, addWeeks, addMonths,         *)
(* addQuarters, addYears, addBusinessDays and the composite add; the       *)
(* formatter formatISO9075 and the comparator compareDesc.                 *)
(*                                                                         *)
(* A JavaScript number is modelled as NaN, an infinity or a multiple of    *)
(* one half (field h counts halves), which is enough to tell integer       *)
(* amounts from fractional ones.  A Date's time value is NaN or an integer *)
(* number of milliseconds since the epoch, kept as (day, ms) with          *)
(* 0 <= ms < msPerDay                                                      *)
(* so that every intermediate value fits the model checker's integers.     *)
(* Date objects live in a heap (a sequence of objects indexed by           *)
(* reference), so that mutation in place and object identity are visible.  *)
(*                                                                         *)
(* The operations of the platform's Date and the stages of the engine     *)
(* that consume an intermediate result are TLA+ functions, so that their   *)
(* arguments are values when the body is evaluated.                        *)
(***************************************************************************)
EXTENDS Integers, Sequences, FiniteSets

VARIABLES
    tz,        \* the local time zone of the host: "UTC" or "DST"
    heap,      \* the date objects allocated so far
    heap0,     \* the heap as it was before the call
    arg,       \* the dirtyDate argument: a reference or a raw timestamp
    op,        \* the function that was called ("none" before the call)
    amount,    \* the amount argument of the single-unit functions
    duration,  \* the duration argument of add
    ret,       \* the reference the call returned (0 when it returned no date)
    steps,     \* the single-day steps the walk of addBusinessDays took
    options,   \* the options argument of formatISO9075
    other,     \* the second date argument of compareDesc
    result     \* what a call that returns no date returned or threw

vars ==
    <<tz, heap, heap0, arg, op, amount, duration, ret, steps, options, other,
      result>>

-----------------------------------------------------------------------------
(* JavaScript numbers                                                      *)

NaN == [nan |-> TRUE, inf |-> 0, h |-> 0]

\* the integer i
N(i) == [nan |-> FALSE, inf |-> 0, h |-> 2 * i]

\* the number h2 / 2
Halves(h2) == [nan |-> FALSE, inf |-> 0, h |-> h2]

\* Infinity (sgn = 1) and -Infinity (sgn = -1)
Infinity(sgn) == [nan |-> FALSE, inf |-> sgn, h |-> 0]

isNaN(x) == x.nan

IsFinite(x) == ~x.nan /\ x.inf = 0

IsInteger(x) == IsFinite(x) /\ x.h % 2 = 0

\* a + b
NAdd(a, b) ==
    IF a.nan \/ b.nan \/ a.inf * b.inf < 0 THEN NaN
    ELSE IF a.inf # 0 THEN a
    ELSE IF b.inf # 0 THEN b
    ELSE Halves(a.h + b.h)

\* a * c for an integer constant c
NMul(a, c) ==
    IF a.nan \/ (a.inf # 0 /\ c = 0) THEN NaN
    ELSE IF a.inf # 0 THEN Infinity(IF c < 0 THEN -a.inf ELSE a.inf)
    ELSE Halves(a.h * c)

\* ToBoolean(a): NaN and 0 are falsy
Truthy(a) == ~a.nan /\ (a.inf # 0 \/ a.h # 0)

\* a >= b (false when either is NaN)
NGeq(a, b) ==
    /\ ~a.nan /\ ~b.nan
    /\ \/ a.inf > b.inf
       \/ a.inf = b.inf /\ (a.inf # 0 \/ a.h >= b.h)

\* a > 0 and a < 0 (false for NaN)
Positive(a) == ~a.nan /\ (a.inf > 0 \/ (a.inf = 0 /\ a.h > 0))

Negative(a) == ~a.nan /\ (a.inf < 0 \/ (a.inf = 0 /\ a.h < 0))

Abs(i) == IF i < 0 THEN -i ELSE i

\* truncation of h2 / 2 toward zero, as an integer
TruncHalves(h2) == IF h2 >= 0 THEN h2 \div 2 ELSE -((-h2) \div 2)

\* Math.trunc(a / 5) for a number a that is not NaN
TruncDiv5(a) ==
    IF a.inf # 0 THEN a
    ELSE N(IF a.h >= 0 THEN a.h \div 10 ELSE -((-a.h) \div 10))

\* the absolute value without the remainder of the division by 5
AbsMod5_NoRemainder(a) == IF a.inf # 0 THEN NaN ELSE Halves(Abs(a.h))

\* Math.abs(a % 5) for a number a that is not NaN: NaN for an infinite a
AbsMod5(a) == IF a.inf # 0 THEN NaN ELSE Halves(Abs(a.h) % 10)

\* the set of JavaScript numbers of the model
Numbers == [nan : BOOLEAN, inf : {-1, 0, 1}, h : Int]

\* Math.floor for a > 0 and Math.ceil for a < 0: the documented rounding
RoundDocumented(a) == IF ~IsFinite(a) THEN a ELSE N(TruncHalves(a.h))

-----------------------------------------------------------------------------
(* Time values and the proleptic Gregorian calendar (ECMAScript Date)      *)

millisecondsInMinute == 60 * 1000
millisecondsInHour == 60 * millisecondsInMinute
msPerDay == 24 * millisecondsInHour

NaNTime == [nan |-> TRUE, day |-> 0, ms |-> 0]

T(d, m) == [nan |-> FALSE, day |-> d, ms |-> m]

\* the set of time values
TimeValues == [nan : BOOLEAN, day : Int, ms : Int]

\* (d, m) with m any integer, normalised to 0 <= ms < msPerDay
Norm[d \in Int, m \in Int] == T(d + (m \div msPerDay), m % msPerDay)

\* a < b for two finite time values
Before[a \in TimeValues, b \in TimeValues] ==
    a.day < b.day \/ (a.day = b.day /\ a.ms < b.ms)

\* TimeClip(t + a): the time value of new Date(t + a)
TimePlus[t \in TimeValues, a \in Numbers] ==
    IF t.nan \/ ~IsFinite(a) THEN NaNTime
    ELSE LET hh == 2 * t.ms + a.h
             d  == t.day + (hh \div (2 * msPerDay))
             r  == hh % (2 * msPerDay)
         IN IF r % 2 = 0 THEN T(d, r \div 2)
            ELSE IF d >= 0 THEN T(d, (r - 1) \div 2)
            ELSE Norm[d, (r + 1) \div 2]

\* days since the epoch of year y, month m (0..11), day-of-month d (any integer)
DayFromCivil[y \in Int, m \in Int, d \in Int] ==
    LET yy  == IF m <= 1 THEN y - 1 ELSE y
        era == yy \div 400
        yoe == yy - era * 400
        mp  == IF m > 1 THEN m - 2 ELSE m + 10
        doy == (153 * mp + 2) \div 5
        doe == yoe * 365 + (yoe \div 4) - (yoe \div 100) + doy
    IN era * 146097 + doe - 719468 + (d - 1)

CivilDates == [y : Int, m : Int, d : Int]

\* [y, m (0..11), d] of day doy of the year that starts on 1 March of year y0
CivilInYear[y0 \in Int, doy \in Int] ==
    LET mp == (5 * doy + 2) \div 153
        m  == IF mp < 10 THEN mp + 2 ELSE mp - 10
    IN [y |-> y0 + (IF m <= 1 THEN 1 ELSE 0), m |-> m,
        d |-> doy - ((153 * mp + 2) \div 5) + 1]

\* [y, m, d] of day doe of the 400-year era era
CivilInEra[era \in Int, doe \in Int] ==
    LET yoe == (doe - (doe \div 1460) + (doe \div 36524) - (doe \div 146096)) \div 365
    IN CivilInYear[yoe + era * 400,
                   doe - (365 * yoe + (yoe \div 4) - (yoe \div 100))]

\* [y, m (0..11), d] of a day number
CivilFromDay[z \in Int] ==
    CivilInEra[(z + 719468) \div 146097, (z + 719468) % 146097]

\* 0 = Sunday .. 6 = Saturday
WeekDay(z) == (z + 4) % 7

\* MakeDay(year, month, date) for integers: month may be out of 0..11
MakeDay[y \in Int, m \in Int, d \in Int] ==
    DayFromCivil[y + (m \div 12), m % 12, d]

DaysInMonth(y, m) == MakeDay[y, m + 1, 1] - MakeDay[y, m, 1]

-----------------------------------------------------------------------------
(* The host's local time zone.  "UTC" has no offset.  "DST" is five hours  *)
(* behind UTC, four in summer; summer time starts on 12 March at 02:00     *)
(* local time (02:00..03:00 is skipped) and ends on 5 November at 02:00    *)
(* local time (01:00..02:00 is repeated), the 2017 transitions of the      *)
(* zones the DST tests run in.                                             *)

Zones == {"UTC", "DST"}

StdOffset == IF tz = "DST" THEN -5 * millisecondsInHour ELSE 0

DstOffset == IF tz = "DST" THEN -4 * millisecondsInHour ELSE 0

\* first local wall-clock time of summer time in year y (the end of the gap)
DstStartLocal[y \in Int] == T(DayFromCivil[y, 2, 12], 3 * millisecondsInHour)

\* the local wall-clock time at which summer time ends in year y
DstEndLocal[y \in Int] == T(DayFromCivil[y, 10, 5], 2 * millisecondsInHour)

\* the instants of the two transitions of year y
DstStartUTC[y \in Int] ==
    Norm[DayFromCivil[y, 2, 12], 3 * millisecondsInHour - DstOffset]

DstEndUTC[y \in Int] ==
    Norm[DayFromCivil[y, 10, 5], 2 * millisecondsInHour - DstOffset]

\* the offset in force at the instant t of year y
OffsetInYearUTC[t \in TimeValues, y \in Int] ==
    IF ~Before[t, DstStartUTC[y]] /\ Before[t, DstEndUTC[y]]
    THEN DstOffset ELSE StdOffset

\* LocalTZA(t, true): the offset in force at the instant t
OffsetAtUTC[t \in TimeValues] ==
    OffsetInYearUTC[t, CivilFromDay[Norm[t.day, t.ms + StdOffset].day].y]

\* the offset used to read the wall-clock time l of year y
OffsetInYearLocal[l \in TimeValues, y \in Int] ==
    IF ~Before[l, DstStartLocal[y]] /\ Before[l, DstEndLocal[y]]
    THEN DstOffset ELSE StdOffset

\* LocalTZA(l, false): the offset used to read the wall-clock time l; a
\* skipped or repeated wall-clock time takes the offset before the transition
OffsetAtLocal[l \in TimeValues] == OffsetInYearLocal[l, CivilFromDay[l.day].y]

LocalTime[t \in TimeValues] == Norm[t.day, t.ms + OffsetAtUTC[t]]

UTC[l \in TimeValues] == Norm[l.day, l.ms - OffsetAtLocal[l]]

\* new Date(y, m, d, 0, 0, 0, ms): the instant of a local wall-clock time
LocalDate(y, m, d, ms) == UTC[T(DayFromCivil[y, m, d], ms)]

\* the calendar fields of a local time l
FieldsOfLocal[l \in TimeValues, c \in CivilDates] ==
    [y |-> c.y, m |-> c.m, d |-> c.d, ms |-> l.ms, wd |-> WeekDay(l.day),
     day |-> l.day]

LocalFields[l \in TimeValues] == FieldsOfLocal[l, CivilFromDay[l.day]]

\* the local calendar fields of a finite time value
Fields[t \in TimeValues] == LocalFields[LocalTime[t]]

\* Date.prototype getters on a time value
getFullYear[t \in TimeValues] == IF t.nan THEN NaN ELSE N(Fields[t].y)

getMonth[t \in TimeValues] == IF t.nan THEN NaN ELSE N(Fields[t].m)

getDate[t \in TimeValues] == IF t.nan THEN NaN ELSE N(Fields[t].d)

getDay[t \in TimeValues] == IF t.nan THEN NaN ELSE N(Fields[t].wd)

getHours[t \in TimeValues] ==
    IF t.nan THEN NaN ELSE N(Fields[t].ms \div millisecondsInHour)

getMinutes[t \in TimeValues] ==
    IF t.nan THEN NaN ELSE N((Fields[t].ms \div millisecondsInMinute) % 60)

getSeconds[t \in TimeValues] ==
    IF t.nan THEN NaN ELSE N((Fields[t].ms \div 1000) % 60)

\* UTC(MakeDate(MakeDay(y, m, d), ms)) for number arguments y, m, d: each is
\* truncated toward zero (ToIntegerOrInfinity); ms is the time within the day
MakeLocal[ms \in Int, y \in Numbers, m \in Numbers, d \in Numbers] ==
    IF y.inf # 0 \/ m.inf # 0 \/ d.inf # 0 THEN NaNTime
    ELSE UTC[T(MakeDay[TruncHalves(y.h), TruncHalves(m.h), TruncHalves(d.h)], ms)]

\* Date.prototype.setMonth(month, date): the new time value
setMonth[t \in TimeValues, month \in Numbers, date \in Numbers] ==
    IF t.nan \/ month.nan \/ date.nan THEN NaNTime
    ELSE MakeLocal[Fields[t].ms, getFullYear[t], month, date]

\* Date.prototype.setDate(date)
setDate[t \in TimeValues, date \in Numbers] ==
    IF t.nan \/ date.nan THEN NaNTime
    ELSE MakeLocal[Fields[t].ms, getFullYear[t], getMonth[t], date]

\* Date.prototype.setFullYear(year, month, date): an invalid date is read as +0
setFullYear[t \in TimeValues, year \in Numbers, month, date \in Numbers] ==
    IF year.nan \/ month.nan \/ date.nan THEN NaNTime
    ELSE MakeLocal[IF t.nan THEN 0 ELSE Fields[t].ms, year, month, date]

\* the local time l with its hour replaced
WithHour[l \in TimeValues, hour \in Int] ==
    UTC[Norm[l.day, hour * millisecondsInHour + (l.ms % millisecondsInHour)]]

\* Date.prototype.setHours(hour)
setHours[t \in TimeValues, hour \in Numbers] ==
    IF t.nan \/ ~IsFinite(hour) THEN NaNTime
    ELSE WithHour[LocalTime[t], TruncHalves(hour.h)]

-----------------------------------------------------------------------------
(* The heap of date objects and the Date Normalizer                        *)

Kinds == {"Date", "SubDate"}

Obj(k, t) == [kind |-> k, t |-> t]

\* the heaps, and the results of a step: a heap h and a reference r into it
Heaps == Seq([kind : Kinds, t : TimeValues])

Results == [h : Heaps, r : Nat]

\* a reference argument and a raw timestamp argument
Ref(r) == [isRef |-> TRUE, ref |-> r, num |-> NaNTime]

Raw(t) == [isRef |-> FALSE, ref |-> 0, num |-> t]

Args == [isRef : BOOLEAN, ref : Nat, num : TimeValues]

\* allocation: the new heap and the new reference
Alloc(h, o) == [h |-> Append(h, o), r |-> Len(h) + 1]

\* assignment of a new time value to the object at r
SetT(h, r, t) == [h EXCEPT ![r].t = t]

\* the time value of the date a result refers to
TimeOf(s) == s.h[s.r].t

\* toDate(argument): a clone of a date object, of the same kind; a Date for
\* a raw timestamp
toDate(h, a) ==
    IF a.isRef THEN Alloc(h, Obj(h[a.ref].kind, h[a.ref].t))
    ELSE Alloc(h, Obj("Date", a.num))

\* toNumber(argument): the time value of a date object, a raw timestamp as is
toNumber(h, a) == IF a.isRef THEN h[a.ref].t ELSE a.num

\* constructFrom(date, value)
constructFrom(h, a, value) ==
    IF a.isRef THEN Alloc(h, Obj(h[a.ref].kind, value))
    ELSE Alloc(h, Obj("Date", value))

\* isWeekend, isSaturday, isSunday on a time value
isWeekend[t \in TimeValues] == ~t.nan /\ Fields[t].wd \in {0, 6}

isSaturday[t \in TimeValues] == ~t.nan /\ Fields[t].wd = 6

isSunday[t \in TimeValues] == ~t.nan /\ Fields[t].wd = 0

-----------------------------------------------------------------------------
(* The calendar arithmetic engine.  Every function takes the heap and the  *)
(* dirtyDate argument and yields the new heap h and the returned           *)
(* reference r.                                                            *)

addMilliseconds(h, a, amt) ==
    LET timestamp == toNumber(h, a)
    IN Alloc(h, Obj("Date", TimePlus[timestamp, amt]))

addSeconds(h, a, amt) == addMilliseconds(h, a, NMul(amt, 1000))

addMinutes(h, a, amt) == addMilliseconds(h, a, NMul(amt, millisecondsInMinute))

addHours(h, a, amt) == addMilliseconds(h, a, NMul(amt, millisecondsInHour))

\* addMonths, lines 92-93: endOfDesiredMonth, a date like the clone s1.r,
\* set to day 0 of the month after the desired one
EndOfDesiredMonth[s1 \in Results, a \in Args, amt \in Numbers] ==
    LET s2 == constructFrom(s1.h, a, TimeOf(s1))
    IN [h |-> SetT(s2.h, s2.r,
                   setMonth[TimeOf(s2),
                            NAdd(NAdd(getMonth[TimeOf(s1)], amt), N(1)), N(0)]),
        r |-> s2.r]

\* addMonths, lines 94-113: e is endOfDesiredMonth, date the clone
ClampOrSet[e \in Results, date \in Nat, dayOfMonth \in Numbers] ==
    IF NGeq(dayOfMonth, getDate[TimeOf(e)]) THEN e
    ELSE [h |-> SetT(e.h, date,
                     setFullYear[e.h[date].t, getFullYear[TimeOf(e)],
                                 getMonth[TimeOf(e)], dayOfMonth]),
          r |-> date]

\* addMonths without the end-of-month clamp: the day of month overflows
\* into the following month
addMonths_NoClamp(h, a, amt) ==
    LET s1 == toDate(h, a)
    IN IF isNaN(amt) THEN constructFrom(s1.h, a, NaNTime)
       ELSE IF ~Truthy(amt) THEN s1
       ELSE [h |-> SetT(s1.h, s1.r,
                        setMonth[TimeOf(s1), NAdd(getMonth[TimeOf(s1)], amt),
                                 getDate[TimeOf(s1)]]),
             r |-> s1.r]

\* ClampOrSet that keeps the year of the date
ClampOrSet_KeepsYear[e \in Results, date \in Nat, dayOfMonth \in Numbers] ==
    IF NGeq(dayOfMonth, getDate[TimeOf(e)]) THEN e
    ELSE [h |-> SetT(e.h, date,
                     setFullYear[e.h[date].t, getFullYear[e.h[date].t],
                                 getMonth[TimeOf(e)], dayOfMonth]),
          r |-> date]

\* addMonths that sets the month and the day but not the year
addMonths_KeepsYear(h, a, amt) ==
    LET s1 == toDate(h, a)
    IN IF isNaN(amt) THEN constructFrom(s1.h, a, NaNTime)
       ELSE IF ~Truthy(amt) THEN s1
       ELSE ClampOrSet_KeepsYear[EndOfDesiredMonth[s1, a, amt], s1.r,
                                 getDate[TimeOf(s1)]]

\* addMonths without the isNaN(amount) test: NaN is falsy and takes the
\* zero-amount return
addMonths_NoNaNCheck(h, a, amt) ==
    LET s1 == toDate(h, a)
    IN IF ~Truthy(amt) THEN s1
       ELSE ClampOrSet[EndOfDesiredMonth[s1, a, amt], s1.r, getDate[TimeOf(s1)]]

\* addMonths that works on the caller's date object instead of a clone
addMonths_InPlace(h, a, amt) ==
    LET s1 == IF a.isRef THEN [h |-> h, r |-> a.ref] ELSE toDate(h, a)
    IN IF isNaN(amt) THEN constructFrom(s1.h, a, NaNTime)
       ELSE IF ~Truthy(amt) THEN s1
       ELSE ClampOrSet[EndOfDesiredMonth[s1, a, amt], s1.r, getDate[TimeOf(s1)]]

addMonths(h, a, amt) ==
    LET s1 == toDate(h, a)
        dayOfMonth == getDate[TimeOf(s1)]
    IN IF isNaN(amt) THEN constructFrom(s1.h, a, NaNTime)
       ELSE IF ~Truthy(amt) THEN s1
       ELSE ClampOrSet[EndOfDesiredMonth[s1, a, amt], s1.r, dayOfMonth]

addQuarters(h, a, amt) == addMonths(h, a, NMul(amt, 3))

addYears(h, a, amt) == addMonths(h, a, NMul(amt, 12))

\* addDays without the zero-amount return: it sets the day it already has
addDays_NoZeroGuard(h, a, amt) ==
    LET s1 == toDate(h, a)
    IN IF isNaN(amt) THEN constructFrom(s1.h, a, NaNTime)
       ELSE [h |-> SetT(s1.h, s1.r,
                        setDate[TimeOf(s1), NAdd(getDate[TimeOf(s1)], amt)]),
             r |-> s1.r]

addDays(h, a, amt) ==
    LET s1   == toDate(h, a)
        date == s1.r
    IN IF isNaN(amt) THEN constructFrom(s1.h, a, NaNTime)
       ELSE IF ~Truthy(amt) THEN s1
       ELSE [h |-> SetT(s1.h, date,
                        setDate[s1.h[date].t, NAdd(getDate[s1.h[date].t], amt)]),
             r |-> date]

\* addWeeks that passes the number of weeks on as a number of days
addWeeks_AsDays(h, a, amt) == addDays(h, a, amt)

addWeeks(h, a, amt) == addDays(h, a, NMul(amt, 7))

\* addBusinessDays, line 315, after the step to t1: the rest of the walk
AfterStep[t1 \in TimeValues, restDays \in Numbers] ==
    IF ~isWeekend[t1] THEN NAdd(restDays, N(-1)) ELSE restDays

\* the state of the walk: the time value of date, restDays and the steps taken
WalkStates == [t : TimeValues, restDays : Numbers, steps : Nat]

\* the while loop of addBusinessDays on the time value of date; yields the
\* final time value and the number of steps
BusinessWalk[w \in WalkStates, sign \in Int] ==
    IF Positive(w.restDays)
    THEN BusinessWalk[
            [t |-> setDate[w.t, NAdd(getDate[w.t], N(sign))],
             restDays |-> AfterStep[setDate[w.t, NAdd(getDate[w.t], N(sign))],
                                    w.restDays],
             steps |-> w.steps + 1],
            sign]
    ELSE w

\* addBusinessDays, lines 304-316, on the time value t0 of date: the shift by
\* full weeks and the walk over the remaining days
Walked[t0 \in TimeValues, amt \in Numbers] ==
    BusinessWalk[[t |-> setDate[t0, NAdd(getDate[t0], NMul(TruncDiv5(amt), 7))],
                  restDays |-> AbsMod5(amt), steps |-> 0],
                 IF Negative(amt) THEN -1 ELSE 1]

\* addBusinessDays, line 325, on the date line 324 left
SundayCorrection[t \in TimeValues, sign \in Int] ==
    IF isSunday[t]
    THEN setDate[t, NAdd(getDate[t], N(IF sign < 0 THEN 1 ELSE -2))]
    ELSE t

\* addBusinessDays, lines 324-325: the edge correction for a start on a weekend
WeekendCorrection[t \in TimeValues, sign \in Int] ==
    SundayCorrection[
        IF isSaturday[t]
        THEN setDate[t, NAdd(getDate[t], N(IF sign < 0 THEN 2 ELSE -1))]
        ELSE t,
        sign]

\* addBusinessDays, lines 321-326, on the date t the walk left
Corrected[startedOnWeekend \in BOOLEAN, t \in TimeValues, amt \in Numbers] ==
    IF startedOnWeekend /\ isWeekend[t] /\ Truthy(amt)
    THEN WeekendCorrection[t, IF Negative(amt) THEN -1 ELSE 1]
    ELSE t

\* addBusinessDays, lines 299-329, on the time value t0 of date
BusinessShift[t0 \in TimeValues, amt \in Numbers] ==
    setHours[Corrected[isWeekend[t0], Walked[t0, amt].t, amt], getHours[t0]]

\* Walked that moves five calendar days for a full business week
Walked_FiveDayWeeks[t0 \in TimeValues, amt \in Numbers] ==
    BusinessWalk[[t |-> setDate[t0, NAdd(getDate[t0], NMul(TruncDiv5(amt), 5))],
                  restDays |-> AbsMod5(amt), steps |-> 0],
                 IF Negative(amt) THEN -1 ELSE 1]

\* addBusinessDays that moves five calendar days for a full business week
addBusinessDays_FiveDayWeeks(h, a, amt) ==
    LET s1 == toDate(h, a)
    IN IF isNaN(amt) THEN constructFrom(s1.h, a, NaNTime)
       ELSE [h |-> SetT(s1.h, s1.r,
                        setHours[Corrected[isWeekend[TimeOf(s1)],
                                           Walked_FiveDayWeeks[TimeOf(s1), amt].t,
                                           amt],
                                 getHours[TimeOf(s1)]]),
             r |-> s1.r]

\* addBusinessDays without the edge correction for a start on a weekend
addBusinessDays_NoWeekendCorrection(h, a, amt) ==
    LET s1 == toDate(h, a)
    IN IF isNaN(amt) THEN constructFrom(s1.h, a, NaNTime)
       ELSE [h |-> SetT(s1.h, s1.r,
                        setHours[Walked[TimeOf(s1), amt].t, getHours[TimeOf(s1)]]),
             r |-> s1.r]

\* the number of single-day steps the walk of addBusinessDays takes
walkSteps(h, a, amt) ==
    IF isNaN(amt) THEN 0 ELSE Walked[toNumber(h, a), amt].steps

addBusinessDays(h, a, amt) ==
    LET s1   == toDate(h, a)
        date == s1.r
    IN IF isNaN(amt) THEN constructFrom(s1.h, a, NaNTime)
       ELSE [h |-> SetT(s1.h, date, BusinessShift[s1.h[date].t, amt]),
             r |-> date]

\* the record of a duration
DurationRecords ==
    [years : Numbers, months : Numbers, weeks : Numbers, days : Numbers,
     hours : Numbers, minutes : Numbers, seconds : Numbers]

\* add, lines 385-386: dateWithMonths, from the clone s
DateWithMonths[s \in Results, dur \in DurationRecords] ==
    IF Truthy(dur.months) \/ Truthy(dur.years)
    THEN addMonths(s.h, Ref(s.r), NAdd(dur.months, NMul(dur.years, 12)))
    ELSE s

\* add, lines 389-390: dateWithDays, from dateWithMonths
DateWithDays[s \in Results, dur \in DurationRecords] ==
    IF Truthy(dur.days) \/ Truthy(dur.weeks)
    THEN addDays(s.h, Ref(s.r), NAdd(dur.days, NMul(dur.weeks, 7)))
    ELSE s

\* add, lines 393-396: finalDate, from dateWithDays
FinalDate[s \in Results, a \in Args, dur \in DurationRecords] ==
    LET minutesToAdd == NAdd(dur.minutes, NMul(dur.hours, 60))
        secondsToAdd == NAdd(dur.seconds, NMul(minutesToAdd, 60))
        msToAdd      == NMul(secondsToAdd, 1000)
    IN constructFrom(s.h, a, TimePlus[TimeOf(s), msToAdd])

\* add that adds the years to the months as they are
add_YearsAsMonths(h, a, dur) ==
    FinalDate[
        DateWithDays[
            DateWithMonths[toDate(h, a),
                           [dur EXCEPT !.months = NAdd(dur.months, dur.years),
                                       !.years = N(0)]],
            dur],
        a, dur]

\* add that applies the days before the months
add_DaysFirst(h, a, dur) ==
    FinalDate[DateWithMonths[DateWithDays[toDate(h, a), dur], dur], a, dur]

add(h, a, dur) ==
    FinalDate[DateWithDays[DateWithMonths[toDate(h, a), dur], dur], a, dur]

-----------------------------------------------------------------------------
(* formatISO9075 and compareDesc.  A string is a sequence of characters.   *)

\* what a call returns when it does not return a date: a number, a string,
\* or an error thrown
NoResult == [type |-> "none", num |-> NaN, str |-> <<>>]

NumberResult(n) == [type |-> "number", num |-> n, str |-> <<>>]

StringResult(str) == [type |-> "string", num |-> NaN, str |-> str]

\* throw new RangeError(message)
RangeError(message) == [type |-> "RangeError", num |-> NaN, str |-> message]

\* isValid(date)
isValid(t) == ~t.nan

DecimalDigits == <<"0", "1", "2", "3", "4", "5", "6", "7", "8", "9">>

\* Number.prototype.toString of a natural number
RECURSIVE ToString(_)
ToString(n) ==
    IF n < 10 THEN <<DecimalDigits[n + 1]>>
    ELSE Append(ToString(n \div 10), DecimalDigits[(n % 10) + 1])

\* String.prototype.padStart(targetLength, '0')
RECURSIVE PadStart(_, _)
PadStart(str, targetLength) ==
    IF Len(str) >= targetLength THEN str
    ELSE PadStart(<<"0">> \o str, targetLength)

\* addLeadingZeros(number, targetLength): the sign, then the digits of the
\* absolute value padded with zeros; Math.abs(NaN).toString() is 'NaN'
addLeadingZeros[number \in Numbers, targetLength \in Nat] ==
    IF number.nan THEN PadStart(<<"N", "a", "N">>, targetLength)
    ELSE (IF number.h < 0 THEN <<"-">> ELSE <<>>)
         \o PadStart(ToString(Abs(number.h) \div 2), targetLength)

\* the option values; "undefined" is an option that is not given
FormatOptions == {"extended", "basic", "undefined"}

RepresentationOptions == {"complete", "date", "time", "undefined"}

OptionRecords == [format : FormatOptions, representation : RepresentationOptions]

\* formatISO9075, lines 65-72: yyyyMMdd or yyyy-MM-dd
DateString[t \in TimeValues, dateDelimiter \in Seq({"-"})] ==
    addLeadingZeros[getFullYear[t], 4] \o dateDelimiter
    \o addLeadingZeros[NAdd(getMonth[t], N(1)), 2] \o dateDelimiter
    \o addLeadingZeros[getDate[t], 2]

\* formatISO9075, lines 75-85: the time appended to the result so far
WithTimeString[result0 \in Seq(STRING), t \in TimeValues, timeDelimiter \in Seq({":"})] ==
    result0 \o (IF result0 = <<>> THEN <<>> ELSE <<" ">>)
    \o addLeadingZeros[getHours[t], 2] \o timeDelimiter
    \o addLeadingZeros[getMinutes[t], 2] \o timeDelimiter
    \o addLeadingZeros[getSeconds[t], 2]

\* formatISO9075, lines 56-87, for the time value t of originalDate
Formatted[t \in TimeValues, opts \in OptionRecords] ==
    LET format == IF opts.format = "undefined" THEN "extended" ELSE opts.format
        representation ==
            IF opts.representation = "undefined" THEN "complete"
            ELSE opts.representation
        dateDelimiter == IF format = "extended" THEN <<"-">> ELSE <<>>
        timeDelimiter == IF format = "extended" THEN <<":">> ELSE <<>>
        result0 ==
            IF representation # "time" THEN DateString[t, dateDelimiter]
            ELSE <<>>
    IN IF representation # "date"
       THEN WithTimeString[result0, t, timeDelimiter]
       ELSE result0

\* formatISO9075 without the validity test
formatISO9075_NoValidityTest(h, a, opts) ==
    [h |-> toDate(h, a).h,
     out |-> StringResult(Formatted[TimeOf(toDate(h, a)), opts])]

\* formatISO9075(dirtyDate, options): the new heap h and what the call
\* returns or throws
formatISO9075(h, a, opts) ==
    LET originalDate == toDate(h, a)
    IN IF ~isValid(TimeOf(originalDate))
       THEN [h |-> originalDate.h, out |-> RangeError("Invalid time value")]
       ELSE [h |-> originalDate.h,
             out |-> StringResult(Formatted[TimeOf(originalDate), opts])]

\* dateLeft.getTime() - dateRight.getTime(), as days and milliseconds:
\* negative exactly when day is negative
TimeMinus[tl \in TimeValues, tr \in TimeValues] ==
    IF tl.nan \/ tr.nan THEN NaNTime ELSE Norm[tl.day - tr.day, tl.ms - tr.ms]

\* compareDesc, lines 43-50, on the difference diff
Compared[diff \in TimeValues] ==
    IF ~diff.nan /\ (diff.day > 0 \/ (diff.day = 0 /\ diff.ms > 0)) THEN N(-1)
    ELSE IF ~diff.nan /\ diff.day < 0 THEN N(1)
    ELSE IF diff.nan THEN NaN ELSE N(0)

\* compareDesc with the two results exchanged: the chronological comparison
compareDesc_Ascending(h, left, right) ==
    LET dateLeft  == toDate(h, left)
        dateRight == toDate(dateLeft.h, right)
    IN [h |-> dateRight.h,
        out |-> NumberResult(
                    NMul(Compared[TimeMinus[TimeOf(dateLeft), TimeOf(dateRight)]],
                         -1))]

\* compareDesc(dirtyDateLeft, dirtyDateRight): the new heap h and the number
\* returned
compareDesc(h, left, right) ==
    LET dateLeft  == toDate(h, left)
        dateRight == toDate(dateLeft.h, right)
    IN [h |-> dateRight.h,
        out |-> NumberResult(
                    Compared[TimeMinus[TimeOf(dateLeft), TimeOf(dateRight)]])]

-----------------------------------------------------------------------------
(* Inputs                                                                  *)

MaxMonths == 13
MaxDays == 8
MaxBusinessDays == 11
DstYear == 2017

\* (month, day) of the input dates of DstYear: ends of months, the days of
\* the two transitions and the days before them, weekdays and weekend days
InputMonthDays ==
    {<<0, 29>>, <<0, 31>>, <<1, 1>>, <<1, 12>>, <<1, 28>>, <<2, 10>>, <<2, 12>>,
     <<2, 19>>, <<9, 5>>, <<9, 31>>, <<10, 3>>, <<10, 4>>, <<10, 5>>, <<11, 31>>}

\* the times of day of the input dates: midnight, 01:30 and 02:30
InputTimesOfDay ==
    {0, 90 * millisecondsInMinute, 150 * millisecondsInMinute}

\* the time values of the input dates
InputTimes ==
    {LocalDate(DstYear, md[1], md[2], tod) :
        md \in InputMonthDays, tod \in InputTimesOfDay}
    \cup {Norm[DstEndUTC[DstYear].day,
               DstEndUTC[DstYear].ms + 30 * millisecondsInMinute],
          LocalDate(2014, 6, 10, 12 * millisecondsInHour
                                 + 45 * millisecondsInMinute + 30 * 1000 + 750),
          LocalDate(1968, 1, 29, 0),
          LocalDate(1969, 11, 31, 23 * millisecondsInHour + 750),
          NaNTime}

Fractions == {Halves(1), Halves(-1), Halves(3), Halves(-3), Halves(9)}

Ints(n) == {N(i) : i \in (-n) .. n}

SmallAmounts == Ints(1) \cup Fractions \cup {NaN}

MillisecondAmounts == SmallAmounts \cup {N(750)}

MonthAmounts == Ints(MaxMonths) \cup Fractions \cup {NaN}

DayAmounts == Ints(MaxDays) \cup Fractions \cup {NaN}

BusinessDayAmounts ==
    Ints(MaxBusinessDays) \cup Fractions \cup {NaN, Infinity(1), Infinity(-1)}

ZeroDuration ==
    [years |-> N(0), months |-> N(0), weeks |-> N(0), days |-> N(0),
     hours |-> N(0), minutes |-> N(0), seconds |-> N(0)]

DurationFields ==
    {"years", "months", "weeks", "days", "hours", "minutes", "seconds"}

IntegerDurations ==
    [years : {N(0), N(1)}, months : {N(-12), N(0), N(1)},
     weeks : {N(0), N(1)}, days : {N(-7), N(0), N(3)},
     hours : {N(0), N(1)}, minutes : {N(-60), N(0)},
     seconds : {N(0), N(30)}]

\* one field NaN, the others 0 or exactly one of them 1
NaNDurations ==
    {[[ZeroDuration EXCEPT ![f] = NaN] EXCEPT ![g] = IF g = f THEN NaN ELSE N(1)] :
        f \in DurationFields, g \in DurationFields}

Durations == IntegerDurations \cup NaNDurations

-----------------------------------------------------------------------------
(* The state machine: a caller holds a date (an object of either kind, or  *)
(* a raw timestamp) and calls one function of the engine on it.            *)

Init ==
    /\ tz \in Zones
    /\ \E t \in InputTimes, k \in Kinds \cup {"number"} :
          /\ heap = IF k = "number" THEN <<>> ELSE <<Obj(k, t)>>
          /\ arg = IF k = "number" THEN Raw(t) ELSE Ref(1)
    /\ heap0 = heap
    /\ op = "none"
    /\ amount = N(0)
    /\ duration = ZeroDuration
    /\ ret = 0
    /\ steps = 0
    /\ options = [format |-> "undefined", representation |-> "undefined"]
    /\ other = Raw(NaNTime)
    /\ result = NoResult

\* the call name(arg, amt) returned s
Returned(name, amt, s) ==
    /\ op' = name
    /\ amount' = amt
    /\ heap' = s.h
    /\ ret' = s.r
    /\ steps' = IF name = "addBusinessDays" THEN walkSteps(heap, arg, amt) ELSE 0
    /\ UNCHANGED <<tz, heap0, arg, duration, options, other, result>>

CallAddMilliseconds ==
    /\ op = "none"
    /\ \E amt \in MillisecondAmounts :
          \E s \in {addMilliseconds(heap, arg, amt)} : Returned("addMilliseconds", amt, s)

CallAddSeconds ==
    /\ op = "none"
    /\ \E amt \in SmallAmounts :
          \E s \in {addSeconds(heap, arg, amt)} : Returned("addSeconds", amt, s)

CallAddMinutes ==
    /\ op = "none"
    /\ \E amt \in SmallAmounts :
          \E s \in {addMinutes(heap, arg, amt)} : Returned("addMinutes", amt, s)

CallAddHours ==
    /\ op = "none"
    /\ \E amt \in SmallAmounts :
          \E s \in {addHours(heap, arg, amt)} : Returned("addHours", amt, s)

CallAddDays ==
    /\ op = "none"
    /\ \E amt \in DayAmounts :
          \E s \in {addDays(heap, arg, amt)} : Returned("addDays", amt, s)

CallAddWeeks ==
    /\ op = "none"
    /\ \E amt \in SmallAmounts :
          \E s \in {addWeeks(heap, arg, amt)} : Returned("addWeeks", amt, s)

CallAddMonths ==
    /\ op = "none"
    /\ \E amt \in MonthAmounts :
          \E s \in {addMonths(heap, arg, amt)} : Returned("addMonths", amt, s)

CallAddQuarters ==
    /\ op = "none"
    /\ \E amt \in SmallAmounts :
          \E s \in {addQuarters(heap, arg, amt)} : Returned("addQuarters", amt, s)

CallAddYears ==
    /\ op = "none"
    /\ \E amt \in SmallAmounts :
          \E s \in {addYears(heap, arg, amt)} : Returned("addYears", amt, s)

CallAddBusinessDays ==
    /\ op = "none"
    /\ \E amt \in BusinessDayAmounts :
          \E s \in {addBusinessDays(heap, arg, amt)} : Returned("addBusinessDays", amt, s)

CallAdd ==
    /\ op = "none"
    /\ \E dur \in Durations :
          \E s \in {add(heap, arg, dur)} :
              /\ op' = "add"
              /\ duration' = dur
              /\ heap' = s.h
              /\ ret' = s.r
              /\ UNCHANGED <<tz, heap0, arg, amount, steps, options, other, result>>

CallFormatISO9075 ==
    /\ op = "none"
    /\ \E opts \in OptionRecords :
          \E s \in {formatISO9075(heap, arg, opts)} :
              /\ op' = "formatISO9075"
              /\ options' = opts
              /\ heap' = s.h
              /\ result' = s.out
              /\ UNCHANGED <<tz, heap0, arg, amount, duration, ret, steps, other>>

\* the caller holds a second date (an object appended to the heap, or a
\* raw timestamp) and compares the first with it
CallCompareDesc ==
    /\ op = "none"
    /\ \E t2 \in InputTimes, k2 \in Kinds \cup {"number"} :
          \E h2 \in {IF k2 = "number" THEN heap ELSE Append(heap, Obj(k2, t2))} :
          \E right \in {IF k2 = "number" THEN Raw(t2) ELSE Ref(Len(h2))} :
          \E s \in {compareDesc(h2, arg, right)} :
              /\ op' = "compareDesc"
              /\ other' = right
              /\ heap0' = h2
              /\ heap' = s.h
              /\ result' = s.out
              /\ UNCHANGED <<tz, arg, amount, duration, ret, steps, options>>

Next ==
    \/ CallAddMilliseconds
    \/ CallAddSeconds
    \/ CallAddMinutes
    \/ CallAddHours
    \/ CallAddDays
    \/ CallAddWeeks
    \/ CallAddMonths
    \/ CallAddQuarters
    \/ CallAddYears
    \/ CallAddBusinessDays
    \/ CallAdd
    \/ CallFormatISO9075
    \/ CallCompareDesc

Spec == Init /\ [][Next]_vars

-----------------------------------------------------------------------------
(* Observations of a call                                                  *)

\* the time value the caller passed
InputTime == IF arg.isRef THEN heap0[arg.ref].t ELSE arg.num

\* the kind of date the caller passed ("Date" for a raw timestamp)
InputKind == IF arg.isRef THEN heap0[arg.ref].kind ELSE "Date"

\* a function that returns a date has returned
Done == op \notin {"none", "formatISO9075", "compareDesc"}

\* the time value and the kind of the returned date
Out == heap[ret].t

OutKind == heap[ret].kind

\* the integer value of an integer amount
IntOf(a) == a.h \div 2

\* the calendar month k months after the month of the fields f
TargetMonth(f, k) ==
    [y |-> f.y + ((f.m + k) \div 12), m |-> (f.m + k) % 12]

\* a local wall-clock time that some instant has (it is not skipped)
WallClockExists(l) == LocalTime[UTC[l]] = l

IsBusinessDay(z) == WeekDay(z) \notin {0, 6}

\* the number of business days among the local days lo .. hi
BusinessDaysIn(lo, hi) == Cardinality({z \in lo .. hi : IsBusinessDay(z)})

\* the function named name applied to the caller's argument
Apply(name, amt) ==
    CASE name = "addMilliseconds" -> addMilliseconds(heap0, arg, amt)
      [] name = "addSeconds" -> addSeconds(heap0, arg, amt)
      [] name = "addMinutes" -> addMinutes(heap0, arg, amt)
      [] name = "addHours" -> addHours(heap0, arg, amt)
      [] name = "addDays" -> addDays(heap0, arg, amt)
      [] name = "addWeeks" -> addWeeks(heap0, arg, amt)
      [] name = "addMonths" -> addMonths(heap0, arg, amt)
      [] name = "addQuarters" -> addQuarters(heap0, arg, amt)
      [] name = "addYears" -> addYears(heap0, arg, amt)
      [] name = "addBusinessDays" -> addBusinessDays(heap0, arg, amt)

-----------------------------------------------------------------------------
(* Claims                                                                  *)

\* the case of C1: addMonths of a valid date by a nonzero integer, the day
\* of month not less than the length of the target month
C1_Case ==
    /\ op = "addMonths" /\ ~InputTime.nan /\ IsInteger(amount) /\ amount.h # 0
    /\ LET f  == Fields[InputTime]
           tm == TargetMonth(f, IntOf(amount))
       IN f.d >= DaysInMonth(tm.y, tm.m)

\* C1: when the day of month of d is at least the number of days of the
\* target month, addMonths(d, k) is the last day of the target month.
C1_ClampsToEndOfTargetMonth ==
    C1_Case =>
        LET f  == Fields[InputTime]
            tm == TargetMonth(f, IntOf(amount))
            r  == Fields[Out]
        IN ~Out.nan /\ r.y = tm.y /\ r.m = tm.m /\ r.d = DaysInMonth(tm.y, tm.m)

\* 31 December + 2 months is 28 February
C1_Witness ==
    /\ C1_Case /\ amount = N(2)
    /\ Fields[InputTime].m = 11 /\ Fields[InputTime].d = 31
    /\ Fields[Out].m = 1 /\ Fields[Out].d = 28

\* the case of C2: the day of month is less than the length of the target month
C2_Case ==
    /\ op = "addMonths" /\ ~InputTime.nan /\ IsInteger(amount) /\ amount.h # 0
    /\ LET f  == Fields[InputTime]
           tm == TargetMonth(f, IntOf(amount))
       IN f.d < DaysInMonth(tm.y, tm.m)

\* the wall-clock time addMonths aims at in the case of C2
C2_Target ==
    LET f  == Fields[InputTime]
        tm == TargetMonth(f, IntOf(amount))
    IN T(DayFromCivil[tm.y, tm.m, f.d], f.ms)

\* C2 as stated: when the day of month of d is less than the number of days
\* of the target month, addMonths(d, k) has the target year and month and the
\* day of month and time of day of d.
C2_KeepsDayAndTime ==
    C2_Case =>
        LET l == LocalTime[Out]
        IN ~Out.nan /\ l = C2_Target

\* C2 as amended: the same, provided the wall-clock time (target year and
\* month, day of month and time of day of d) is not skipped by a transition
\* to summer time.
C2_KeepsDayAndTimeWhenItExists ==
    (C2_Case /\ WallClockExists(C2_Target)) =>
        LET l == LocalTime[Out]
        IN ~Out.nan /\ l = C2_Target

\* 5 October 01:30 + 1 month is 5 November 01:30, in the repeated hour
C2_Witness ==
    /\ C2_Case /\ WallClockExists(C2_Target) /\ tz = "DST" /\ amount = N(1)
    /\ Fields[InputTime].m = 9 /\ Fields[InputTime].d = 5
    /\ Fields[Out].m = 10 /\ Fields[Out].d = 5
    /\ Fields[Out].ms = 90 * millisecondsInMinute

\* C3: addMonths(d, 0) and addDays(d, 0) are the instant d, for valid d.
C3_ZeroIsIdentity ==
    (op \in {"addMonths", "addDays"} /\ amount = N(0) /\ ~InputTime.nan) =>
        Out = InputTime

\* addDays(d, 0) for d in the second pass of the repeated hour
C3_Witness ==
    /\ op = "addDays" /\ amount = N(0) /\ tz = "DST" /\ ~InputTime.nan
    /\ UTC[LocalTime[InputTime]] # InputTime
    /\ Out = InputTime

\* C4: addMilliseconds, addDays, addMonths and addBusinessDays return an
\* invalid date when the amount is NaN or the input date is invalid.
C4_InvalidPropagates ==
    (/\ op \in {"addMilliseconds", "addDays", "addMonths", "addBusinessDays"}
     /\ (isNaN(amount) \/ InputTime.nan)) =>
        Out.nan

\* addMonths of a valid date by NaN, and of an invalid date by 0
C4_Witness ==
    /\ op = "addMonths"
    /\ \/ isNaN(amount) /\ ~InputTime.nan
       \/ amount = N(0) /\ InputTime.nan
    /\ Out.nan

\* C5: add(d, duration) with d valid and some field of the duration NaN is
\* an invalid date.
C5_NaNFieldGivesInvalid ==
    (/\ op = "add" /\ ~InputTime.nan
     /\ \E f \in DurationFields : isNaN(duration[f])) =>
        Out.nan

\* C6: no function changes the date object it is given, and the date it
\* returns is an object allocated by the call.
C6_InputNotMutated ==
    (Done /\ arg.isRef) =>
        /\ heap[arg.ref] = heap0[arg.ref]
        /\ ret # arg.ref
        /\ ret > Len(heap0)

\* addMonths and addBusinessDays of a date object, by an amount that moves it
C6_Witness ==
    /\ op \in {"addMonths", "addBusinessDays"} /\ arg.isRef
    /\ ~InputTime.nan /\ Out # InputTime /\ ~Out.nan

\* the time value of addMilliseconds(addDays(addMonths(d, m + 12y), dd + 7w),
\* 1000 * (s + 60 * (mi + 60h))) for the duration dur
Sequential(dur) ==
    LET s1 == addMonths(heap0, arg, NAdd(dur.months, NMul(dur.years, 12)))
        s2 == addDays(s1.h, Ref(s1.r), NAdd(dur.days, NMul(dur.weeks, 7)))
        s3 == addMilliseconds(s2.h, Ref(s2.r),
                 NMul(NAdd(dur.seconds,
                           NMul(NAdd(dur.minutes, NMul(dur.hours, 60)), 60)),
                      1000))
    IN s3.h[s3.r].t

\* the case of C7: add of a valid date and a duration of integers
C7_Case ==
    /\ op = "add" /\ ~InputTime.nan
    /\ \A f \in DurationFields : IsInteger(duration[f])

\* C7: add(d, duration) is the instant of the sequential composition: months,
\* then days, then the time delta.
C7_AddIsSequential == C7_Case => Out = Sequential(duration)

\* 29 January + {months: 1, days: 3, hours: 1}: the order of the stages shows
C7_Witness ==
    /\ C7_Case /\ duration.months = N(1) /\ duration.days = N(3)
    /\ duration.hours = N(1) /\ duration.years = N(0)
    /\ Fields[InputTime].m = 0 /\ Fields[InputTime].d = 29
    /\ Fields[Out].m = 2 /\ Fields[Out].d = 3

\* the case of C8: addBusinessDays of a valid date on a business day by an
\* integer
C8_Case ==
    /\ op = "addBusinessDays" /\ ~InputTime.nan /\ IsInteger(amount)
    /\ IsBusinessDay(Fields[InputTime].day)

\* C8: addBusinessDays(d, n) from a business day is a business day with
\* exactly |n| business days from d (exclusive) to it (inclusive), forward
\* for n > 0 and backward for n < 0.
C8_CountsBusinessDays ==
    C8_Case =>
        LET d == Fields[InputTime].day
            r == Fields[Out].day
            n == IntOf(amount)
        IN /\ ~Out.nan
           /\ IsBusinessDay(r)
           /\ n > 0 => (r > d /\ BusinessDaysIn(d + 1, r) = n)
           /\ n < 0 => (r < d /\ BusinessDaysIn(r, d - 1) = -n)
           /\ n = 0 => r = d

\* a Friday + 10 business days is the Friday two weeks later, and a walk
\* of 4 business days crosses a weekend
C8_Witness ==
    /\ C8_Case
    /\ \/ amount = N(10) /\ Fields[Out].day = Fields[InputTime].day + 14
       \/ amount = N(-4) /\ Fields[Out].day = Fields[InputTime].day - 6

\* the add* functions that take one amount
AmountFunctions ==
    {"addMilliseconds", "addSeconds", "addMinutes", "addHours", "addDays",
     "addWeeks", "addMonths", "addBusinessDays"}

\* C9: a non-integer amount gives the result of the amount rounded toward
\* zero (floor when positive, ceil when negative).
C9_FractionRoundsTowardZero ==
    (/\ op \in AmountFunctions /\ ~InputTime.nan
     /\ IsFinite(amount) /\ ~IsInteger(amount)) =>
        LET s == Apply(op, RoundDocumented(amount))
        IN Out = s.h[s.r].t

\* C10: the returned date has the kind of the date object given, and the
\* base kind for a raw timestamp.
C10_SameKind == Done => OutKind = InputKind

\* the case of C11: addWeeks of a valid date by an integer
C11_Case == op = "addWeeks" /\ ~InputTime.nan /\ IsInteger(amount)

\* the instant addMilliseconds(d, n * 604800000) of the caller's date
C11_FixedShift ==
    TimeOf(addMilliseconds(heap0, arg, NMul(amount, 7 * msPerDay)))

\* C11 as stated: addWeeks(d, n) is the instant addMilliseconds(d,
\* n * 604800000) for every valid d and integer n, also across a transition
\* of the local time zone.
C11_WeeksAreFixedDuration == C11_Case => Out = C11_FixedShift

\* the wall-clock time 7 * n days after that of d
C11_Target ==
    T(LocalTime[InputTime].day + 7 * IntOf(amount), LocalTime[InputTime].ms)

\* C11 as amended: the same, provided the local time zone has the same
\* offset from UTC at d and at the result and the wall-clock time of d exists
\* on the day 7 * n days later.
C11_WeeksAreFixedDurationAtSameOffset ==
    (/\ C11_Case
     /\ OffsetAtUTC[InputTime] = OffsetAtUTC[Out]
     /\ WallClockExists(C11_Target)) =>
        Out = C11_FixedShift

\* one week after 12 March 03:30, summer time at both ends
C11_Witness ==
    /\ C11_Case /\ amount = N(1) /\ tz = "DST"
    /\ Fields[InputTime].m = 2 /\ Fields[InputTime].d = 12
    /\ OffsetAtUTC[InputTime] = DstOffset /\ OffsetAtUTC[Out] = DstOffset
    /\ WallClockExists(C11_Target)
    /\ Fields[Out].d = 19 /\ Out = C11_FixedShift

\* C12: formatISO9075 throws a RangeError for an invalid date, whatever the
\* options, and returns a string for a valid date.
C12_ThrowsOnInvalidOnly ==
    op = "formatISO9075" =>
        /\ InputTime.nan => result.type = "RangeError"
        /\ ~InputTime.nan => result.type = "string" /\ result.str # <<>>

\* an invalid date with the time-only representation has thrown, and
\* 10 July 2014 12:45:30.750 with no options is '2014-07-10 12:45:30'
C12_Witness ==
    /\ op = "formatISO9075"
    /\ \/ /\ InputTime.nan /\ options.representation = "time"
          /\ options.format = "basic" /\ result.type = "RangeError"
       \/ /\ ~InputTime.nan /\ options.representation = "undefined"
          /\ options.format = "undefined"
          /\ result = StringResult(<<"2", "0", "1", "4", "-", "0", "7", "-",
                                     "1", "0", " ", "1", "2", ":", "4", "5",
                                     ":", "3", "0">>)

\* the time value of the second date the caller passed
OtherTime == IF other.isRef THEN heap0[other.ref].t ELSE other.num

\* the case of C13: compareDesc of two valid dates
C13_Case == op = "compareDesc" /\ ~InputTime.nan /\ ~OtherTime.nan

\* the number compareDesc returns for the time values a and b
C13_Compare(a, b) == compareDesc(<<>>, Raw(a), Raw(b)).out.num

\* C13: for valid dates a and b, compareDesc(a, b) is -1 when a is after b,
\* 1 when a is before b and 0 when they are the same instant; it is
\* -compareDesc(b, a); and it is the comparator of the reverse chronological
\* order: whenever it puts a not after b and b not after c, it puts a not
\* after c, and then a, b, c are in reverse chronological order.
C13_ReverseChronological ==
    C13_Case =>
        /\ result.type = "number"
        /\ Before[OtherTime, InputTime] => result.num = N(-1)
        /\ Before[InputTime, OtherTime] => result.num = N(1)
        /\ InputTime = OtherTime => result.num = N(0)
        /\ result.num = NMul(compareDesc(heap0, other, arg).out.num, -1)
        /\ \A c \in {t \in InputTimes : ~t.nan} :
              (~Positive(result.num) /\ ~Positive(C13_Compare(OtherTime, c))) =>
                  /\ ~Positive(C13_Compare(InputTime, c))
                  /\ ~Before[InputTime, OtherTime] /\ ~Before[OtherTime, c]

\* a date object that is after the raw timestamp it is compared with
C13_Witness ==
    /\ C13_Case /\ arg.isRef /\ ~other.isRef
    /\ Before[OtherTime, InputTime] /\ result.num = N(-1)

\* the case of C14: add of a valid date and a duration of integers whose
\* three combined deltas are zero
C14_Case ==
    /\ op = "add" /\ ~InputTime.nan
    /\ \A f \in DurationFields : IsInteger(duration[f])
    /\ NAdd(duration.months, NMul(duration.years, 12)) = N(0)
    /\ NAdd(duration.days, NMul(duration.weeks, 7)) = N(0)
    /\ NAdd(duration.seconds,
            NMul(NAdd(duration.minutes, NMul(duration.hours, 60)), 60)) = N(0)

\* C14: add(d, duration) is the instant d whenever years * 12 + months,
\* weeks * 7 + days and the total of hours, minutes and seconds are all zero,
\* also when single fields are nonzero and cancel.
C14_CancellingDurationIsIdentity == C14_Case => Out = InputTime

\* {years: 1, months: -12, weeks: 1, days: -7, hours: 1, minutes: -60} added
\* to a date in the second pass of the repeated hour
C14_Witness ==
    /\ C14_Case /\ tz = "DST"
    /\ duration.years = N(1) /\ duration.months = N(-12)
    /\ duration.weeks = N(1) /\ duration.days = N(-7)
    /\ duration.hours = N(1) /\ duration.minutes = N(-60)
    /\ UTC[LocalTime[InputTime]] # InputTime
    /\ Out = InputTime

\* the case of C15: addBusinessDays of a valid date by a nonzero integer
C15_Case ==
    /\ op = "addBusinessDays" /\ ~InputTime.nan
    /\ IsInteger(amount) /\ amount.h # 0

\* the local day 7 * (n / 5) days after that of d, for n a multiple of 5
C15_Landing == Fields[InputTime].day + 7 * (IntOf(amount) \div 5)

\* C15: for a valid date d and a nonzero integer n, addBusinessDays(d, n) is
\* not on a Saturday or a Sunday; when d is on a weekend and n is a multiple
\* of 5 it is the Friday before the landing weekend for n > 0 and the Monday
\* after it for n < 0.
C15_NeverOnWeekend ==
    C15_Case =>
        /\ ~Out.nan /\ IsBusinessDay(Fields[Out].day)
        /\ (~IsBusinessDay(Fields[InputTime].day) /\ IntOf(amount) % 5 = 0) =>
              Fields[Out].day =
                  IF amount.h > 0
                  THEN C15_Landing - (IF WeekDay(C15_Landing) = 6 THEN 1 ELSE 2)
                  ELSE C15_Landing + (IF WeekDay(C15_Landing) = 6 THEN 2 ELSE 1)

\* 10 business days from a Saturday end on the Friday 13 days later
C15_Witness ==
    /\ C15_Case /\ amount = N(10)
    /\ Fields[InputTime].wd = 6 /\ Fields[Out].wd = 5
    /\ Fields[Out].day = Fields[InputTime].day + 13

\* |amount| mod 5 in halves, for a finite amount
C16_Rest == Abs(amount.h) % 10

\* C16 as stated: the walk of addBusinessDays ends, after at most
\* |amount| mod 5 single-day steps, which is fewer than 5.
C16_StepsBoundedByRest ==
    op = "addBusinessDays" =>
        /\ steps < 5
        /\ IsFinite(amount) => 2 * steps <= C16_Rest

\* C16 as amended: the walk of addBusinessDays ends for every date and
\* amount; it takes no step for a NaN or infinite amount and at most
\* ceil(|amount| mod 5) + 2 steps for a finite one, the two being the days
\* of a weekend, which are steps that do not count down.
C16_StepsBoundedByRestAndWeekend ==
    op = "addBusinessDays" =>
        /\ ~IsFinite(amount) => steps = 0
        /\ IsFinite(amount) => steps <= ((C16_Rest + 1) \div 2) + 2

\* 4.5 business days from a Friday: seven steps, two over the weekend and
\* five over the business days
C16_Witness ==
    /\ op = "addBusinessDays" /\ amount = Halves(9)
    /\ Fields[InputTime].wd = 5 /\ steps = 7

\* the case of C17: addMonths of a valid date by an integer
C17_Case == op = "addMonths" /\ ~InputTime.nan /\ IsInteger(amount)

\* the valid dates not earlier than d that have the time of day of d
C17_LaterDates ==
    {d2 \in InputTimes :
        /\ ~d2.nan /\ ~Before[d2, InputTime]
        /\ Fields[d2].ms = Fields[InputTime].ms}

\* C17: for dates d1 and d2 with the same time of day and d1 not later than
\* d2, addMonths(d1, k) is not later than addMonths(d2, k).
C17_PreservesOrder ==
    C17_Case =>
        \A d2 \in C17_LaterDates :
            ~Before[TimeOf(addMonths(<<>>, Raw(d2), amount)), Out]

\* 31 January and 1 February plus one month: 28 February and 1 March
C17_Witness ==
    /\ C17_Case /\ amount = N(1)
    /\ Fields[InputTime].m = 0 /\ Fields[InputTime].d = 31
    /\ Fields[Out].m = 1 /\ Fields[Out].d = 28
    /\ \E d2 \in C17_LaterDates :
          /\ Fields[d2].m = 1 /\ Fields[d2].d = 1
          /\ Fields[TimeOf(addMonths(<<>>, Raw(d2), amount))].m = 2
          /\ Fields[TimeOf(addMonths(<<>>, Raw(d2), amount))].d = 1

====
